---- MODULE Spec2Model ----
(***************************************************************************)
(* A model of scripts/update_scilit.py: the regular-expression heuristics  *)
(* (parse_number_near_label, parse_series) computed character by           *)
(* character, and main() as a sequence of steps over the output file.      *)
(*                                                                         *)
(* Text is a sequence of one-character strings.  Offsets are 0-based and   *)
(* slices are half-open, as in Python.                                     *)
(***************************************************************************)
EXTENDS Integers, Sequences, FiniteSets, TLC

(***************************************************************************)
(* Characters and slices                                                   *)
(***************************************************************************)
Digits == <<"0", "1", "2", "3", "4", "5", "6", "7", "8", "9">>

Uppers == <<"A", "B", "C", "D", "E", "F", "G", "H", "I", "J", "K", "L", "M",
            "N", "O", "P", "Q", "R", "S", "T", "U", "V", "W", "X", "Y", "Z">>

Lowers == <<"a", "b", "c", "d", "e", "f", "g", "h", "i", "j", "k", "l", "m",
            "n", "o", "p", "q", "r", "s", "t", "u", "v", "w", "x", "y", "z">>

InSeq(c, s) == \E i \in 1..Len(s) : s[i] = c

\* \d
IsDigit(c) == InSeq(c, Digits)

DigitVal(c) == (CHOOSE i \in 1..Len(Digits) : Digits[i] = c) - 1

\* \s
IsSpace(c) == c \in {" ", "\n", "\t", "\r"}

\* \w, which decides \b
IsWord(c) == IsDigit(c) \/ InSeq(c, Uppers) \/ InSeq(c, Lowers) \/ c = "_"

\* re.IGNORECASE: both sides are compared in lower case
Lower(c) == IF InSeq(c, Uppers) THEN Lowers[CHOOSE i \in 1..Len(Uppers) : Uppers[i] = c] ELSE c

Max(a, b) == IF a >= b THEN a ELSE b

Min(a, b) == IF a <= b THEN a ELSE b

\* s[k], or "" (no character) off either end
At(s, k) == IF k >= 0 /\ k < Len(s) THEN s[k + 1] ELSE ""

\* s[a:b]
Slice(s, a, b) == SubSeq(s, a + 1, b)

\* the literal w (given in lower case) at offset k, case-insensitively
MatchWord(s, k, w) == \A j \in 1..Len(w) : Lower(At(s, k + j - 1)) = w[j]

\* how many digits (\d+ or \d*, greedy) start at offset k
DigitRun(s, k) ==
    CHOOSE n \in 0..Len(s) :
        /\ \A j \in 0..(n - 1) : IsDigit(At(s, k + j))
        /\ ~IsDigit(At(s, k + n))

\* how many blanks (\s+ or \s*, greedy) start at offset k
SpaceRun(s, k) ==
    CHOOSE n \in 0..Len(s) :
        /\ \A j \in 0..(n - 1) : IsSpace(At(s, k + j))
        /\ ~IsSpace(At(s, k + n))

\* \b at offset k
WordBoundary(s, k) == IsWord(At(s, k - 1)) # IsWord(At(s, k))

(***************************************************************************)
(* Python values                                                           *)
(*   None, int n, float m / 10^e (m carries no trailing zero unless e = 0),*)
(*   str, list, dict (its items in insertion order)                        *)
(***************************************************************************)
None == [k |-> "none"]

PyInt(n) == [k |-> "int", n |-> n]

PyFloat(m, e) == [k |-> "float", m |-> m, e |-> e]

PyStr(s) == [k |-> "str", s |-> s]

PyList(items) == [k |-> "list", items |-> items]

PyDict(items) == [k |-> "dict", items |-> items]

RECURSIVE Pow10(_)
Pow10(e) == IF e = 0 THEN 1 ELSE 10 * Pow10(e - 1)

\* the float m / 10^e in lowest decimal terms
RECURSIVE Normalise(_, _)
Normalise(m, e) ==
    IF e > 0 /\ m % 10 = 0 THEN Normalise(m \div 10, e - 1) ELSE PyFloat(m, e)

\* the number a run of digits denotes
RECURSIVE DigitsToInt(_)
DigitsToInt(ds) ==
    IF ds = <<>> THEN 0
    ELSE 10 * DigitsToInt(SubSeq(ds, 1, Len(ds) - 1)) + DigitVal(ds[Len(ds)])

Remove(s, c) == SelectSeq(s, LAMBDA x : x # c)

Replace(s, c, d) == [i \in 1..Len(s) |-> IF s[i] = c THEN d ELSE s[i]]

Count(s, c) == Cardinality({i \in 1..Len(s) : s[i] = c})

\* float(s) for s made of digits and dots, a digit first and last:
\* a ValueError when s holds more than one dot
FloatOf(s) ==
    IF Count(s, ".") > 1 THEN [ok |-> FALSE, x |-> None]
    ELSE LET dot  == IF Count(s, ".") = 0 THEN Len(s) + 1
                     ELSE CHOOSE i \in 1..Len(s) : s[i] = "."
             frac == Len(s) - Min(dot, Len(s))
         IN [ok |-> TRUE, x |-> Normalise(DigitsToInt(Remove(s, ".")), frac)]

(***************************************************************************)
(* parse_number_near_label                                                 *)
(***************************************************************************)
H5_LABEL == "\\bh5[-\\s]?index\\b"

MCM_LABEL == "Monthly\\s+Citation\\s+Metric"

\* where a match of \bh5[-\s]?index\b begun at offset k ends, or -1
H5End(s, k) ==
    LET j == IF At(s, k + 2) = "-" \/ IsSpace(At(s, k + 2)) THEN k + 3 ELSE k + 2
    IN IF /\ WordBoundary(s, k)
          /\ MatchWord(s, k, <<"h", "5">>)
          /\ MatchWord(s, j, <<"i", "n", "d", "e", "x">>)
          /\ WordBoundary(s, j + 5)
       THEN j + 5 ELSE -1

\* where a match of Monthly\s+Citation\s+Metric begun at offset k ends, or -1
McmEnd(s, k) ==
    LET ws1 == SpaceRun(s, k + 7)
        c   == k + 7 + ws1
        ws2 == SpaceRun(s, c + 8)
        m   == c + 8 + ws2
    IN IF /\ MatchWord(s, k, <<"m", "o", "n", "t", "h", "l", "y">>)
          /\ ws1 >= 1
          /\ MatchWord(s, c, <<"c", "i", "t", "a", "t", "i", "o", "n">>)
          /\ ws2 >= 1
          /\ MatchWord(s, m, <<"m", "e", "t", "r", "i", "c">>)
       THEN m + 6 ELSE -1

LabelEnd(label_regex, s, k) ==
    IF label_regex = H5_LABEL THEN H5End(s, k) ELSE McmEnd(s, k)

\* re.search(label_regex, html, flags=re.IGNORECASE): the leftmost match as
\* [start, end], start = -1 when there is none
SearchLabel(label_regex, html) ==
    LET hits == {k \in 0..(Len(html) - 1) : LabelEnd(label_regex, html, k) >= 0}
    IN IF hits = {} THEN [start |-> -1, end |-> -1]
       ELSE LET k == CHOOSE x \in hits : \A y \in hits : x <= y
            IN [start |-> k, end |-> LabelEnd(label_regex, html, k)]

IsSep(c) == c = "." \/ c = ","

\* (?:[.,]\d{3})* begun at offset k, greedy: the offset it stops at
RECURSIVE GroupsEnd(_, _)
GroupsEnd(s, k) ==
    IF IsSep(At(s, k)) /\ DigitRun(s, k + 1) >= 3 THEN GroupsEnd(s, k + 4) ELSE k

\* (?:[.,]\d+)? begun at offset k, greedy: the offset it stops at
TailEnd(s, k) ==
    IF IsSep(At(s, k)) /\ DigitRun(s, k + 1) >= 1 THEN k + 1 + DigitRun(s, k + 1) ELSE k

\* re.search(r"(\d{1,3}(?:[.,]\d{3})*(?:[.,]\d+)?)", chunk): group 1 of the
\* leftmost match, <<>> when the chunk holds no digit
SearchNumber(chunk) ==
    LET starts == {k \in 0..(Len(chunk) - 1) : IsDigit(chunk[k + 1])}
    IN IF starts = {} THEN <<>>
       ELSE LET p == CHOOSE x \in starts : \A y \in starts : x <= y
                q == TailEnd(chunk, GroupsEnd(chunk, p + Min(DigitRun(chunk, p), 3)))
            IN Slice(chunk, p, q)

\* the window of lines 41-43
BEFORE_LABEL == 200

AFTER_LABEL == 400

Chunk(html, m) ==
    Slice(html, Max(m.start - BEFORE_LABEL, 0), Min(m.end + AFTER_LABEL, Len(html)))

\* lines 50-55
ToNumber(num) ==
    LET s == Replace(Remove(num, "."), ",", ".")
        f == FloatOf(s)
    IN IF ~f.ok THEN None
       ELSE IF f.x.e = 0 THEN PyInt(f.x.m) ELSE f.x

parse_number_near_label(html, label_regex) ==
    LET m == SearchLabel(label_regex, html)
    IN IF m.start < 0 THEN None
       ELSE LET num == SearchNumber(Chunk(html, m))
            IN IF num = <<>> THEN None ELSE ToNumber(num)

(***************************************************************************)
(* parse_series                                                            *)
(***************************************************************************)
\* (20\d{2}-\d{2}) at offset k
MonthAt(s, k) ==
    /\ At(s, k) = "2"
    /\ At(s, k + 1) = "0"
    /\ IsDigit(At(s, k + 2))
    /\ IsDigit(At(s, k + 3))
    /\ At(s, k + 4) = "-"
    /\ IsDigit(At(s, k + 5))
    /\ IsDigit(At(s, k + 6))

MONTH_LEN == 7

\* re.findall(r"(20\d{2}-\d{2})", html) from offset k on: the matches left to
\* right, each search resuming where the match before ended
RECURSIVE FindMonths(_, _)
FindMonths(s, k) ==
    LET hits == {j \in k..(Len(s) - 1) : MonthAt(s, j)}
    IN IF hits = {} THEN <<>>
       ELSE LET j == CHOOSE x \in hits : \A y \in hits : x <= y
            IN <<Slice(s, j, j + MONTH_LEN)>> \o FindMonths(s, j + MONTH_LEN)

\* faulty variant: the duplicates are kept
Dedup_Keep(ms) == ms

\* [m for m in months if not (m in seen or seen.add(m))]
RECURSIVE Dedup(_)
Dedup(ms) ==
    IF ms = <<>> THEN <<>>
    ELSE LET front == Dedup(SubSeq(ms, 1, Len(ms) - 1))
             last  == ms[Len(ms)]
         IN IF InSeq(last, front) THEN front ELSE Append(front, last)

\* The states of (?:\s*\d+(?:\.\d+)?\s*,?)+\s* read as an automaton over the
\* text between the brackets:
\*   "start" nothing but blanks so far       "int"   in an item's \d+
\*   "dot"   after the dot of \.\d+          "frac1" one digit into \.\d+
\*   "frac"  two or more digits into \.\d+ (or in the \d+ of a next item)
\*   "gap"   blanks after a number           "comma" after an item's comma
ArrayStep(q, c) ==
    CASE q = "start" -> IF IsSpace(c) THEN "start" ELSE IF IsDigit(c) THEN "int" ELSE "fail"
      [] q = "int"   -> IF IsDigit(c) THEN "int" ELSE IF c = "." THEN "dot"
                        ELSE IF IsSpace(c) THEN "gap" ELSE IF c = "," THEN "comma" ELSE "fail"
      [] q = "dot"   -> IF IsDigit(c) THEN "frac1" ELSE "fail"
      [] q = "frac1" -> IF IsDigit(c) THEN "frac"
                        ELSE IF IsSpace(c) THEN "gap" ELSE IF c = "," THEN "comma" ELSE "fail"
      [] q = "frac"  -> IF IsDigit(c) THEN "frac" ELSE IF c = "." THEN "dot"
                        ELSE IF IsSpace(c) THEN "gap" ELSE IF c = "," THEN "comma" ELSE "fail"
      [] q = "gap"   -> IF IsSpace(c) THEN "gap" ELSE IF IsDigit(c) THEN "int"
                        ELSE IF c = "," THEN "comma" ELSE "fail"
      [] q = "comma" -> IF IsSpace(c) THEN "comma" ELSE IF IsDigit(c) THEN "int" ELSE "fail"
      [] OTHER       -> "fail"

RECURSIVE ArrayRun(_, _)
ArrayRun(q, inner) ==
    IF inner = <<>> THEN q ELSE ArrayRun(ArrayStep(q, Head(inner)), Tail(inner))

\* where a match of \[(?:\s*\d+(?:\.\d+)?\s*,?)+\s*\] begun at offset k ends,
\* or -1: no part of the pattern but its last takes a "]", so the match
\* closes at the first "]" or not at all
ArrayEnd(w, k) ==
    LET closes == {j \in (k + 1)..(Len(w) - 1) : w[j + 1] = "]"}
    IN IF At(w, k) # "[" \/ closes = {} THEN -1
       ELSE LET j == CHOOSE x \in closes : \A y \in closes : x <= y
            IN IF ArrayRun("start", Slice(w, k + 1, j)) \in {"int", "frac1", "frac", "gap", "comma"}
               THEN j + 1 ELSE -1

\* re.search of the array pattern in the window: arr.group(0), <<>> if none
SearchArray(window) ==
    LET hits == {k \in 0..(Len(window) - 1) : ArrayEnd(window, k) >= 0}
    IN IF hits = {} THEN <<>>
       ELSE LET k == CHOOSE x \in hits : \A y \in hits : x <= y
            IN Slice(window, k, ArrayEnd(window, k))

\* where \d+(?:\.\d+)? begun at the digit at offset k ends
NumberEnd(s, k) ==
    LET n == DigitRun(s, k)
    IN IF At(s, k + n) = "." /\ DigitRun(s, k + n + 1) >= 1
       THEN k + n + 1 + DigitRun(s, k + n + 1) ELSE k + n

\* re.findall(r"\d+(?:\.\d+)?", raw) from offset k on
RECURSIVE FindNumbers(_, _)
FindNumbers(s, k) ==
    LET hits == {j \in k..(Len(s) - 1) : IsDigit(At(s, j))}
    IN IF hits = {} THEN <<>>
       ELSE LET j == CHOOSE x \in hits : \A y \in hits : x <= y
            IN <<Slice(s, j, NumberEnd(s, j))>> \o FindNumbers(s, NumberEnd(s, j))

NDIGITS == 4

\* round(x, 4) of the float x = m / 10^e.  A decimal tie (the dropped digits
\* are exactly 5) goes to the even neighbour, which is Python's answer when
\* the tie is a binary fraction; for any other tie Python's answer depends on
\* the double nearest to x, and the inputs of this model hold no such number.
Round4(x) ==
    IF x.e <= NDIGITS THEN x
    ELSE LET unit == Pow10(x.e - NDIGITS)
             q    == x.m \div unit
             r    == x.m % unit
             up   == 2 * r > unit \/ (2 * r = unit /\ q % 2 = 1)
         IN Normalise(IF up THEN q + 1 ELSE q, NDIGITS)

K_month == <<"m", "o", "n", "t", "h">>

K_value == <<"v", "a", "l", "u", "e">>

\* {"month": months[i], "value": round(values[i], 4)}
SeriesPoint(month, value) ==
    PyDict(<<[key |-> K_month, val |-> PyStr(month)],
             [key |-> K_value, val |-> Round4(value)]>>)

\* line 88
PairCount(months, values) == Min(Len(months), Len(values))

WINDOW == 50000

parse_series(html) ==
    LET months == Dedup(FindMonths(html, 0))
        idx    == SearchLabel(MCM_LABEL, html)
    IN IF idx.start < 0 THEN PyList(<<>>)
       ELSE LET window == Slice(html, idx.start, Min(idx.start + WINDOW, Len(html)))
                raw    == SearchArray(window)
            IN IF raw = <<>> THEN PyList(<<>>)
               ELSE LET texts  == FindNumbers(raw, 0)
                        values == [i \in 1..Len(texts) |-> FloatOf(texts[i]).x]
                        n      == PairCount(months, values)
                    IN PyList([i \in 1..n |-> SeriesPoint(months[i], values[i])])

(***************************************************************************)
(* json.dumps and json.loads                                               *)
(*                                                                         *)
(* A JSON text is kept as its sequence of tokens (the layout blanks of     *)
(* indent=2 are left out): a token is punctuation "p", a string "s", a     *)
(* number literal "n" or the word null "w", with its characters.           *)
(***************************************************************************)
Tok(t, c) == [t |-> t, c |-> c]

P(c) == Tok("p", <<c>>)

NULL == Tok("w", <<"n", "u", "l", "l">>)

RECURSIVE IntToChars(_)
IntToChars(n) ==
    IF n < 10 THEN <<Digits[n + 1]>>
    ELSE Append(IntToChars(n \div 10), Digits[(n % 10) + 1])

\* d zero-padded on the left to n characters
RECURSIVE PadLeft(_, _)
PadLeft(d, n) == IF Len(d) >= n THEN d ELSE PadLeft(<<"0">> \o d, n)

\* float.__repr__ of m / 10^e in positional notation, the notation repr uses
\* for a float in [1e-4, 1e16): the shortest digits that read back as the
\* same float, which for a short decimal are the decimal's own
FloatRepr(x) ==
    IF x.e = 0 THEN IntToChars(x.m) \o <<".", "0">>
    ELSE IntToChars(x.m \div Pow10(x.e)) \o <<".">>
         \o PadLeft(IntToChars(x.m % Pow10(x.e)), x.e)

RECURSIVE Dumps(_), DumpItems(_), DumpPairs(_)
\* json.dumps(v, ensure_ascii=False, indent=2)
Dumps(v) ==
    CASE v.k = "none"  -> <<NULL>>
      [] v.k = "int"   -> <<Tok("n", IntToChars(v.n))>>
      [] v.k = "float" -> <<Tok("n", FloatRepr(v))>>
      [] v.k = "str"   -> <<Tok("s", v.s)>>
      [] v.k = "list"  -> <<P("[")>> \o DumpItems(v.items) \o <<P("]")>>
      [] v.k = "dict"  -> <<P("{")>> \o DumpPairs(v.items) \o <<P("}")>>

DumpItems(items) ==
    IF items = <<>> THEN <<>>
    ELSE Dumps(Head(items))
         \o (IF Len(items) > 1 THEN <<P(",")>> ELSE <<>>)
         \o DumpItems(Tail(items))

DumpPairs(items) ==
    IF items = <<>> THEN <<>>
    ELSE <<Tok("s", Head(items).key), P(":")>> \o Dumps(Head(items).val)
         \o (IF Len(items) > 1 THEN <<P(",")>> ELSE <<>>)
         \o DumpPairs(Tail(items))

\* d[key] = val on a dict's items: a repeated key keeps its place and takes
\* the later value
DictPut(items, key, val) ==
    IF \E i \in 1..Len(items) : items[i].key = key
    THEN [i \in 1..Len(items) |->
            IF items[i].key = key THEN [key |-> key, val |-> val] ELSE items[i]]
    ELSE Append(items, [key |-> key, val |-> val])

Bad == [ok |-> FALSE, v |-> None, next |-> 0]

\* a number literal: an int without a dot, a float with one
NumberOf(c) ==
    IF Count(c, ".") = 0 THEN PyInt(DigitsToInt(c)) ELSE FloatOf(c).x

RECURSIVE ParseValue(_, _), ParseList(_, _, _), ParseDict(_, _, _)
\* the JSON value that starts at token i: [ok, v, next]
ParseValue(toks, i) ==
    IF i > Len(toks) THEN Bad
    ELSE LET tok == toks[i]
         IN CASE tok.t = "w" -> IF tok = NULL THEN [ok |-> TRUE, v |-> None, next |-> i + 1] ELSE Bad
              [] tok.t = "n" -> [ok |-> TRUE, v |-> NumberOf(tok.c), next |-> i + 1]
              [] tok.t = "s" -> [ok |-> TRUE, v |-> PyStr(tok.c), next |-> i + 1]
              [] tok = P("[") ->
                    IF i + 1 <= Len(toks) /\ toks[i + 1] = P("]")
                    THEN [ok |-> TRUE, v |-> PyList(<<>>), next |-> i + 2]
                    ELSE ParseList(toks, i + 1, <<>>)
              [] tok = P("{") ->
                    IF i + 1 <= Len(toks) /\ toks[i + 1] = P("}")
                    THEN [ok |-> TRUE, v |-> PyDict(<<>>), next |-> i + 2]
                    ELSE ParseDict(toks, i + 1, <<>>)
              [] OTHER -> Bad

\* the items of a list from token i on, acc those read so far
ParseList(toks, i, acc) ==
    LET r == ParseValue(toks, i)
    IN IF ~r.ok \/ r.next > Len(toks) THEN Bad
       ELSE IF toks[r.next] = P("]")
            THEN [ok |-> TRUE, v |-> PyList(Append(acc, r.v)), next |-> r.next + 1]
            ELSE IF toks[r.next] = P(",")
                 THEN ParseList(toks, r.next + 1, Append(acc, r.v))
                 ELSE Bad

\* the pairs of an object from token i on, acc those read so far
ParseDict(toks, i, acc) ==
    IF i + 1 > Len(toks) \/ toks[i].t # "s" \/ toks[i + 1] # P(":") THEN Bad
    ELSE LET r == ParseValue(toks, i + 2)
         IN IF ~r.ok \/ r.next > Len(toks) THEN Bad
            ELSE IF toks[r.next] = P("}")
                 THEN [ok |-> TRUE, v |-> PyDict(DictPut(acc, toks[i].c, r.v)), next |-> r.next + 1]
                 ELSE IF toks[r.next] = P(",")
                      THEN ParseDict(toks, r.next + 1, DictPut(acc, toks[i].c, r.v))
                      ELSE Bad

\* json.loads(text): ok = FALSE is a JSONDecodeError
Loads(toks) ==
    LET r == ParseValue(toks, 1)
    IN IF r.ok /\ r.next = Len(toks) + 1 THEN [ok |-> TRUE, v |-> r.v]
       ELSE [ok |-> FALSE, v |-> None]

\* d.get(key) of a dict
DictGet(d, key) ==
    IF \E i \in 1..Len(d.items) : d.items[i].key = key
    THEN d.items[CHOOSE i \in 1..Len(d.items) : d.items[i].key = key].val
    ELSE None

\* a lone surrogate, which a JSON text may hold as the escape \ud800 and
\* which has no UTF-8 encoding
SURROGATE == "U+D800"

\* str.encode("utf-8") of the text json.dumps(v, ensure_ascii=False) gives
\* does not raise UnicodeEncodeError
RECURSIVE Encodable(_)
Encodable(v) ==
    CASE v.k = "str"  -> ~InSeq(SURROGATE, v.s)
      [] v.k = "list" -> \A i \in 1..Len(v.items) : Encodable(v.items[i])
      [] v.k = "dict" -> \A i \in 1..Len(v.items) :
                             ~InSeq(SURROGATE, v.items[i].key) /\ Encodable(v.items[i].val)
      [] OTHER        -> TRUE

(***************************************************************************)
(* The output file                                                         *)
(***************************************************************************)
Absent == [exists |-> FALSE, readable |-> FALSE, toks |-> <<>>]

\* a file read_text cannot decode
Unreadable == [exists |-> TRUE, readable |-> FALSE, toks |-> <<>>]

TextFile(toks) == [exists |-> TRUE, readable |-> TRUE, toks |-> toks]

\* the file write_text leaves when it raises while encoding: opened for
\* writing, so cut to nothing, and nothing written
Truncated == TextFile(<<>>)

SCILIT_URL == <<"h", "t", "t", "p", "s", ":", "/", "/", "w", "w", "w", ".", "s", "c", "i", "l", "i", "t", ".", "c", "o", "m", "/", "s", "o", "u", "r", "c", "e", "s", "/", "9", "6", "0", "5", "6">>

K_source == <<"s", "o", "u", "r", "c", "e">>

K_updated_at == <<"u", "p", "d", "a", "t", "e", "d", "_", "a", "t">>

K_h5_index == <<"h", "5", "_", "i", "n", "d", "e", "x">>

K_mcm == <<"m", "c", "m">>

K_series == <<"s", "e", "r", "i", "e", "s">>

(***************************************************************************)
(* main                                                                    *)
(***************************************************************************)
\* line 101 raises when read_text cannot decode the file (UnicodeDecodeError)
\* or json.loads cannot parse it (JSONDecodeError); "" when it does not raise
ReadRaises(f) ==
    IF ~f.readable THEN "UnicodeDecodeError"
    ELSE IF ~Loads(f.toks).ok THEN "JSONDecodeError" ELSE ""

\* faulty variant: the prior file is never taken up
ReadOld_Empty(f) == PyDict(<<>>)

\* line 101: json.loads(OUT_JSON.read_text(encoding="utf-8"))
ReadOld(f) == Loads(f.toks).v

\* faulty variant: the outer try closes after the fetch
Handler_FetchOnly(place) ==
    CASE place = "load" -> "inner"
      [] place = "fetch" -> "outer"
      [] OTHER -> "none"

\* The handler an exception raised at a place of main unwinds to: the try
\* of lines 100-103 around the read, the try of lines 105-129 around the
\* rest, both of which catch Exception; "none" is out of main
Handler(place) ==
    CASE place = "load" -> "inner"
      [] place \in {"fetch", "parse", "carry", "assemble", "write", "print"} -> "outer"
      [] OTHER -> "none"

\* old.get(...) raises AttributeError unless old is a dict
HasGet(v) == v.k = "dict"

\* line 114 evaluates old.get only when the parsed series is empty
CarryRaises(s, o) == s.items = <<>> /\ ~HasGet(o)

\* faulty variant: the parsed series stands, empty or not
CarryForward_Never(s, o) == s

\* lines 114-115
CarryForward(s, o) ==
    IF s.items = <<>> /\ DictGet(o, K_series).k = "list" THEN DictGet(o, K_series) ELSE s

\* lines 120-121 evaluate old.get only when the parsed value is None
FallbackRaises(new, o) == new = None /\ ~HasGet(o)

\* faulty variant: "new or old.get(key)", which takes a parsed 0 for a miss
Fallback_Truthy(new, o, key) ==
    IF new # None /\ new # PyInt(0) THEN new
    ELSE IF HasGet(o) THEN DictGet(o, key) ELSE None

\* new if new is not None else old.get(key)
Fallback(new, o, key) == IF new # None THEN new ELSE DictGet(o, key)

\* lines 117-123
Payload(today, h5, m, s, o) ==
    PyDict(<<[key |-> K_source,     val |-> PyStr(SCILIT_URL)],
             [key |-> K_updated_at, val |-> PyStr(today)],
             [key |-> K_h5_index,   val |-> Fallback(h5, o, K_h5_index)],
             [key |-> K_mcm,        val |-> Fallback(m, o, K_mcm)],
             [key |-> K_series,     val |-> s]>>)

(***************************************************************************)
(* Inputs of the model                                                     *)
(***************************************************************************)
TXT_H5 == <<"h", "5", "-", "i", "n", "d", "e", "x">>

TXT_MCM == <<"M", "o", "n", "t", "h", "l", "y", " ", "C", "i", "t", "a", "t", "i", "o", "n", " ", "M", "e", "t", "r", "i", "c">>

\* the label as IGNORECASE and \s+ also take it
TXT_MCM_ALT == <<"m", "o", "n", "t", "h", "l", "y", " ", " ", "c", "i", "t", "a", "t", "i", "o", "n", "\n", "M", "E", "T", "R", "I", "C">>

TXT_M1 == <<"2", "0", "2", "4", "-", "0", "1">>

TXT_M2 == <<"2", "0", "2", "4", "-", "0", "2">>

TXT_ARRAY == <<"[", "0", ".", "1", "0", ",", " ", "0", ".", "2", "0", ",", " ", "0", ".", "3", "0", "]">>

Filler(n) == [i \in 1..n |-> "x"]

\* the pages a fetch may return
PAGE_EMPTY == <<"<", "h", "t", "m", "l", ">", "<", "/", "h", "t", "m", "l", ">">>

PAGE_H5_ZERO == <<"r", "a", "n", "k", " ", "0", " ">> \o TXT_H5

PAGE_MCM == TXT_MCM \o <<":", " ", "0", ".", "4", "2">>

PAGE_SERIES ==
    TXT_M1 \o <<" ">> \o TXT_M2 \o <<" ">> \o TXT_M1 \o <<" ">> \o TXT_MCM \o <<" ">> \o TXT_ARRAY

PAGE_ALL == TXT_H5 \o <<":", " ", "1", "2", " ", "2", "0", "2", "4", "-", "0", "3", " ">> \o TXT_MCM_ALT \o <<" ", "[", "0", ".", "5", "]">>

\* the array and the month lie beyond the 400 characters after the label
PAGE_FAR == TXT_MCM \o Filler(AFTER_LABEL) \o <<"[", "0", ".", "7", "]", " ", "2", "0", "2", "4", "-", "0", "4">>

Pages == {PAGE_EMPTY, PAGE_H5_ZERO, PAGE_MCM, PAGE_SERIES, PAGE_ALL, PAGE_FAR}

\* datetime.now(timezone.utc).date().isoformat()
Dates == {<<"2", "0", "2", "6", "-", "0", "1", "-", "0", "5">>, <<"2", "0", "2", "6", "-", "0", "1", "-", "0", "6">>}

\* what requests.get and raise_for_status raise
FetchErrors == {"ConnectionError", "HTTPError"}

\* the Snapshot of the scenario of the specification's section 8
SNAPSHOT_8 ==
    PyDict(<<[key |-> K_h5_index, val |-> PyInt(5)],
             [key |-> K_mcm,      val |-> PyFloat(42, 2)],
             [key |-> K_series,   val |-> PyList(<<SeriesPoint(TXT_M1, PyFloat(1, 1))>>)]>>)

\* an object that is no Snapshot: h5_index 0, series not a list
OBJECT_ODD ==
    PyDict(<<[key |-> K_h5_index, val |-> PyInt(0)],
             [key |-> K_series,   val |-> None]>>)

\* an object with a series and, for h5_index, a string that cannot be encoded
OBJECT_SURROGATE ==
    PyDict(<<[key |-> K_h5_index, val |-> PyStr(<<SURROGATE>>)],
             [key |-> K_series,   val |-> PyList(<<SeriesPoint(TXT_M2, PyFloat(3, 1))>>)]>>)

\* what the output file may hold before the first run
InitialFiles ==
    {Absent, Unreadable, TextFile(<<P("{")>>)}
    \cup {TextFile(Dumps(v)) :
            v \in {None, PyList(<<>>), PyStr(<<"x">>), PyInt(7), PyDict(<<>>),
                   SNAPSHOT_8, OBJECT_ODD, OBJECT_SURROGATE}}

\* how many times the program is run
MaxRuns == 3

(***************************************************************************)
(* State                                                                   *)
(***************************************************************************)
VARIABLES
    file,       \* remunom-scilit.json
    pc,         \* where main is
    old, html, h5_index, mcm, series, payload,    \* main's locals
    exc,        \* the exception the run raised, "" if none
    raised_at,  \* the place of main that raised it
    out,        \* what the run has printed
    run,        \* the number of this run
    file0,      \* history: the file when the run began
    steps,      \* history: the steps the run has completed
    wrote_before    \* history: an earlier run wrote the file

vars == <<file, pc, old, html, h5_index, mcm, series, payload, exc, raised_at, out, run,
          file0, steps, wrote_before>>

locals == <<old, html, h5_index, mcm, series, payload>>

history == <<run, file0, wrote_before>>

Fresh ==
    /\ pc = "start"
    /\ old = PyDict(<<>>)
    /\ html = <<>>
    /\ h5_index = None
    /\ mcm = None
    /\ series = PyList(<<>>)
    /\ payload = None
    /\ exc = ""
    /\ raised_at = ""
    /\ out = <<>>
    /\ steps = <<>>

Init ==
    /\ file \in InitialFiles
    /\ file0 = file
    /\ run = 1
    /\ wrote_before = FALSE
    /\ Fresh

\* raise e at a place of main
Raise(e, place) ==
    /\ exc' = e
    /\ raised_at' = place
    /\ pc' = "raise"

\* lines 98-101
Load ==
    /\ pc = "start"
    /\ IF file.exists /\ ReadRaises(file) # ""
       THEN /\ Raise(ReadRaises(file), "load")
            /\ UNCHANGED <<old, steps>>
       ELSE /\ old' = IF file.exists THEN ReadOld(file) ELSE PyDict(<<>>)
            /\ pc' = "fetch"
            /\ steps' = Append(steps, "load")
            /\ UNCHANGED <<exc, raised_at>>
    /\ UNCHANGED <<file, html, h5_index, mcm, series, payload, out, history>>

\* the exception reaches its handler: lines 102-103 set old = {} and go on,
\* line 127 enters the outer handler, anything else leaves main
Unwind ==
    /\ pc = "raise"
    /\ IF Handler(raised_at) = "inner"
       THEN /\ old' = PyDict(<<>>)
            /\ exc' = ""
            /\ raised_at' = ""
            /\ pc' = "fetch"
            /\ steps' = Append(steps, "load")
       ELSE /\ pc' = IF Handler(raised_at) = "outer" THEN "except" ELSE "crashed"
            /\ UNCHANGED <<old, exc, raised_at, steps>>
    /\ UNCHANGED <<file, html, h5_index, mcm, series, payload, out, history>>

\* line 106, fetch_html returns r.text
FetchOk ==
    /\ pc = "fetch"
    /\ \E page \in Pages : html' = page
    /\ pc' = "parse"
    /\ steps' = Append(steps, "fetch")
    /\ UNCHANGED <<file, old, h5_index, mcm, series, payload, exc, raised_at, out, history>>

\* line 106, fetch_html raises (lines 28-29)
FetchFail ==
    /\ pc = "fetch"
    /\ \E e \in FetchErrors : Raise(e, "fetch")
    /\ UNCHANGED <<file, locals, out, history, steps>>

\* lines 108-111
Extract ==
    /\ pc = "parse"
    /\ h5_index' = parse_number_near_label(html, H5_LABEL)
    /\ mcm' = parse_number_near_label(html, MCM_LABEL)
    /\ series' = parse_series(html)
    /\ pc' = "carry"
    /\ steps' = Append(steps, "extract")
    /\ UNCHANGED <<file, old, html, payload, exc, raised_at, out, history>>

\* lines 113-115
Carry ==
    /\ pc = "carry"
    /\ IF CarryRaises(series, old)
       THEN /\ Raise("AttributeError", "carry")
            /\ UNCHANGED <<series, steps>>
       ELSE /\ series' = CarryForward(series, old)
            /\ pc' = "assemble"
            /\ steps' = Append(steps, "carry")
            /\ UNCHANGED <<exc, raised_at>>
    /\ UNCHANGED <<file, old, html, h5_index, mcm, payload, out, history>>

\* lines 117-123
Assemble ==
    /\ pc = "assemble"
    /\ IF FallbackRaises(h5_index, old) \/ FallbackRaises(mcm, old)
       THEN /\ Raise("AttributeError", "assemble")
            /\ UNCHANGED <<payload, steps>>
       ELSE /\ \E today \in Dates : payload' = Payload(today, h5_index, mcm, series, old)
            /\ pc' = "write"
            /\ steps' = Append(steps, "assemble")
            /\ UNCHANGED <<exc, raised_at>>
    /\ UNCHANGED <<file, old, html, h5_index, mcm, series, out, history>>

\* line 125: write_text opens the file, which cuts it to nothing, then
\* encodes and writes the text
Write ==
    /\ pc = "write"
    /\ IF Encodable(payload)
       THEN /\ file' = TextFile(Dumps(payload))
            /\ pc' = "print"
            /\ steps' = Append(steps, "write")
            /\ UNCHANGED <<exc, raised_at>>
       ELSE /\ file' = Truncated
            /\ Raise("UnicodeEncodeError", "write")
            /\ UNCHANGED steps
    /\ UNCHANGED <<locals, out, history>>

\* line 126
PrintOk ==
    /\ pc = "print"
    /\ out' = Append(out, "OK")
    /\ pc' = "done"
    /\ UNCHANGED <<file, locals, exc, raised_at, history, steps>>

\* faulty variant: the handler resets the file to an empty object
Except_Resets ==
    /\ pc = "except"
    /\ out' = Append(out, "ERRO")
    /\ file' = TextFile(Dumps(PyDict(<<>>)))
    /\ pc' = "done"
    /\ UNCHANGED <<locals, exc, raised_at, history, steps>>

\* lines 127-129
Except ==
    /\ pc = "except"
    /\ out' = Append(out, "ERRO")
    /\ pc' = "done"
    /\ UNCHANGED <<file, locals, exc, raised_at, history, steps>>

\* the program is run again, on the file the last run left
Rerun ==
    /\ pc = "done"
    /\ run < MaxRuns
    /\ run' = run + 1
    /\ file0' = file
    /\ wrote_before' = (wrote_before \/ InSeq("write", steps))
    /\ pc' = "start"
    /\ old' = PyDict(<<>>)
    /\ html' = <<>>
    /\ h5_index' = None
    /\ mcm' = None
    /\ series' = PyList(<<>>)
    /\ payload' = None
    /\ exc' = ""
    /\ raised_at' = ""
    /\ out' = <<>>
    /\ steps' = <<>>
    /\ UNCHANGED file

\* one step of main
Step ==
    \/ Load \/ Unwind \/ FetchOk \/ FetchFail \/ Extract \/ Carry \/ Assemble
    \/ Write \/ PrintOk \/ Except

Next == Step \/ Rerun

Spec == Init /\ [][Next]_vars

(***************************************************************************)
(* The extraction heuristics on their own: SpecParse draws a page from a   *)
(* bounded family and applies the three extractions of lines 108-111 to it *)
(***************************************************************************)
\* at most this many YYYY-MM tokens lead a page
MaxMonths == 3

\* at most this many numbers stand in a page's array
MaxValues == 3

RECURSIVE Cat(_)
Cat(ts) == IF ts = <<>> THEN <<>> ELSE Head(ts) \o Cat(Tail(ts))

RECURSIVE Join(_, _)
Join(ts, sep) ==
    IF ts = <<>> THEN <<>>
    ELSE IF Len(ts) = 1 THEN ts[1] ELSE ts[1] \o sep \o Join(Tail(ts), sep)

SeqsUpTo(pool, n) == UNION {[1..k -> pool] : k \in 0..n}

MonthPool == {TXT_M1 \o <<" ">>, TXT_M2 \o <<" ">>}

ValuePool == {<<"0", ".", "1", "0">>, <<"0", ".", "1", "2", "3", "4", "6">>}

Leads == {Cat(ms) : ms \in SeqsUpTo(MonthPool, MaxMonths)}

Middles ==
    { <<>>,
      TXT_H5 \o <<" ", "1", "2", " ">>,
      TXT_MCM \o <<" ">>,
      TXT_MCM_ALT \o <<":", " ">>,
      <<"c", "i", "t", "a", "t", "i", "o", "n", "s", ":", " ", "1", ",", "2", "7", "6", " ", "t", "o", "t", "a", "l", " ">> \o TXT_MCM \o <<" ">>,
      TXT_MCM \o <<" ", "i", "n", "d", "e", "x", ":", " ", "1", "2", ".", "3", " ">>,
      <<"s", "c", "o", "r", "e", " ", "1", ",", "2", "7", "6", ",", "5", " ">> \o TXT_H5 \o <<" ">> \o TXT_MCM \o <<" ", "[", "x", "]", " ">> }

Arrays ==
    {<<"[">> \o Join(vs, <<",", " ">>) \o <<"]">> : vs \in SeqsUpTo(ValuePool, MaxValues)}
    \cup {<<>>, <<"[", "7", " ", "8", ".", "5", " ", ",", "]">>}

Tails == {<<>>, <<" ", "2", "0", "2", "4", "-", "0", "3", " ", "[", "9", "]">>}

ParseInputs == {l \o m \o a \o t : l \in Leads, m \in Middles, a \in Arrays, t \in Tails}

InitParse ==
    /\ html \in ParseInputs
    /\ pc = "input"
    /\ h5_index = None
    /\ mcm = None
    /\ series = PyList(<<>>)
    /\ file = Absent
    /\ file0 = Absent
    /\ old = PyDict(<<>>)
    /\ payload = None
    /\ exc = ""
    /\ raised_at = ""
    /\ out = <<>>
    /\ run = 1
    /\ steps = <<>>
    /\ wrote_before = FALSE

\* line 108
ParseH5 ==
    /\ pc = "input"
    /\ h5_index' = parse_number_near_label(html, H5_LABEL)
    /\ pc' = "h5"
    /\ UNCHANGED <<file, old, html, mcm, series, payload, exc, raised_at, out, history, steps>>

\* line 109
ParseMcm ==
    /\ pc = "h5"
    /\ mcm' = parse_number_near_label(html, MCM_LABEL)
    /\ pc' = "mcm"
    /\ UNCHANGED <<file, old, html, h5_index, series, payload, exc, raised_at, out, history, steps>>

\* line 111
ParseSeries ==
    /\ pc = "mcm"
    /\ series' = parse_series(html)
    /\ pc' = "parsed"
    /\ UNCHANGED <<file, old, html, h5_index, mcm, payload, exc, raised_at, out, history, steps>>

NextParse == ParseH5 \/ ParseMcm \/ ParseSeries

SpecParse == InitParse /\ [][NextParse]_vars

(***************************************************************************)
(* What the claims speak of                                                *)
(***************************************************************************)
Wrote == InSeq("write", steps)

Fetched == InSeq("fetch", steps)

\* the file holds a JSON object
HoldsObject(f) ==
    f.exists /\ f.readable /\ Loads(f.toks).ok /\ Loads(f.toks).v.k = "dict"

\* the value a file stores under a key, null when it stores none
FieldOf(f, key) == IF HoldsObject(f) THEN DictGet(Loads(f.toks).v, key) ELSE None

Fields(f) == <<FieldOf(f, K_h5_index), FieldOf(f, K_mcm), FieldOf(f, K_series)>>

\* the file holds a non-empty series
HasSeries(f) == FieldOf(f, K_series).k = "list" /\ FieldOf(f, K_series).items # <<>>

\* the three extractions of a run whose fetch succeeded all found nothing
AllMiss ==
    /\ InSeq("extract", steps)
    /\ h5_index = None
    /\ mcm = None
    /\ parse_series(html).items = <<>>

(***************************************************************************)
(* C1: a run in which fetch_html raises, or any other exception is raised  *)
(* before the write step, never writes the output file (it stays as it was *)
(* when the run began) and prints the ERRO message, never OK.              *)
(***************************************************************************)
C1_FailedRunLeavesFile ==
    (exc # "" /\ raised_at \in {"fetch", "parse", "carry", "assemble"}) =>
        /\ file = file0
        /\ ~Wrote
        /\ ~InSeq("OK", out)
        /\ pc = "done" => out = <<"ERRO">>

\* the scenario of section 8: a network error over a stored Snapshot
C1_Witness ==
    /\ pc = "done"
    /\ exc = "ConnectionError"
    /\ file0 = TextFile(Dumps(SNAPSHOT_8))
    /\ file = file0
    /\ out = <<"ERRO">>

(***************************************************************************)
(* C2: in a run that writes, h5_index and mcm are each written as the      *)
(* parsed value when extraction returned one (0 included), else as the     *)
(* value the file held for that field when the run began, else as null.    *)
(***************************************************************************)
C2_Written(parsed, key) == IF parsed # None THEN parsed ELSE FieldOf(file0, key)

C2_ScalarFallback ==
    Wrote =>
        /\ FieldOf(file, K_h5_index) = C2_Written(h5_index, K_h5_index)
        /\ FieldOf(file, K_mcm) = C2_Written(mcm, K_mcm)

\* a parsed 0 written over a stored 5, and a stored mcm kept on a miss
C2_Witness ==
    /\ pc = "done"
    /\ Wrote
    /\ h5_index = PyInt(0)
    /\ FieldOf(file0, K_h5_index) = PyInt(5)
    /\ FieldOf(file, K_h5_index) = PyInt(0)
    /\ mcm = None
    /\ FieldOf(file0, K_mcm) = PyFloat(42, 2)
    /\ FieldOf(file, K_mcm) = PyFloat(42, 2)

FirstNumber(label_regex) == SearchNumber(Chunk(html, SearchLabel(label_regex, html)))

Found(label_regex) == SearchLabel(label_regex, html).start >= 0

C4_ThousandsGrouped ==
    pc = "parsed" =>
        /\ (Found(H5_LABEL) /\ FirstNumber(H5_LABEL) = <<"1", ",", "2", "7", "6">>) => h5_index = PyInt(1276)
        /\ (Found(MCM_LABEL) /\ FirstNumber(MCM_LABEL) = <<"1", ",", "2", "7", "6">>) => mcm = PyInt(1276)

(***************************************************************************)
(* C5: when the first number in the window around the label is written     *)
(* 12.3, scalar extraction returns the float 12.3.                         *)
(***************************************************************************)
C5_DecimalPoint ==
    pc = "parsed" =>
        /\ (Found(H5_LABEL) /\ FirstNumber(H5_LABEL) = <<"1", "2", ".", "3">>) => h5_index = PyFloat(123, 1)
        /\ (Found(MCM_LABEL) /\ FirstNumber(MCM_LABEL) = <<"1", "2", ".", "3">>) => mcm = PyFloat(123, 1)

(***************************************************************************)
(* C6: when a bracketed numeric array follows the first Monthly Citation   *)
(* Metric in its window, parse_series returns the i-th distinct YYYY-MM    *)
(* token of the page (first-seen order) paired with the i-th number of the *)
(* first such array, for i up to the shorter of the two counts.            *)
(* As written the claim pairs the number itself (C6_PairsTheNumber); the   *)
(* code pairs the number rounded to 4 decimal places (C6_PairsRounded).    *)
(***************************************************************************)
\* where the YYYY-MM tokens start: a place that matches and lies in no token
\* begun before it
MonthStarts(s) ==
    LET cand == {k \in 0..(Len(s) - 1) : MonthAt(s, k)}
    IN CHOOSE T \in SUBSET cand :
           \A k \in cand : k \in T <=> \A j \in T : ~(j < k /\ k < j + MONTH_LEN)

MonthToken(s, k) == Slice(s, k, k + MONTH_LEN)

\* the starts of the tokens not seen before
FirstSeen(s) ==
    {k \in MonthStarts(s) :
        \A j \in MonthStarts(s) : j < k => MonthToken(s, j) # MonthToken(s, k)}

\* the i-th smallest member of a set of numbers
Nth(T, i) == CHOOSE x \in T : Cardinality({y \in T : y < x}) = i - 1

\* the first bracketed numeric array of the window, <<>> if there is none
FirstArray(s) ==
    LET at == SearchLabel(MCM_LABEL, s).start
    IN IF at < 0 THEN <<>> ELSE SearchArray(Slice(s, at, Min(at + WINDOW, Len(s))))

\* digits and single dots between digits from offset c to offset k
InChain(s, c, k) ==
    /\ IsDigit(At(s, c))
    /\ \A j \in c..k :
          \/ IsDigit(At(s, j))
          \/ At(s, j) = "." /\ IsDigit(At(s, j - 1)) /\ IsDigit(At(s, j + 1))

\* where the numbers of a text start: at a run of digits that follows an even
\* number of dots in its chain (a number takes at most one dot)
NumberStarts(s) ==
    {k \in 0..(Len(s) - 1) :
        /\ IsDigit(At(s, k))
        /\ ~IsDigit(At(s, k - 1))
        /\ LET c == CHOOSE x \in 0..k :
                       InChain(s, x, k) /\ \A y \in 0..(x - 1) : ~InChain(s, y, k)
           IN Count(Slice(s, c, k), ".") % 2 = 0}

NumberAt(s, k) == FloatOf(Slice(s, k, NumberEnd(s, k))).x

\* the multiple of 10^-4 nearest to x, the even one of two equally near
Nearest4(x) ==
    IF x.e <= NDIGITS THEN x
    ELSE LET unit    == Pow10(x.e - NDIGITS)
             lo      == x.m \div unit
             Dist(c) == IF c * unit >= x.m THEN c * unit - x.m ELSE x.m - c * unit
             q       == CHOOSE c \in {lo, lo + 1} :
                            \A d \in {lo, lo + 1} :
                                Dist(c) < Dist(d) \/ (Dist(c) = Dist(d) /\ (c % 2 = 0 \/ c = d))
         IN Normalise(q, NDIGITS)

C6_Pairing(s, rounded) ==
    LET raw == FirstArray(s)
        n   == Min(Cardinality(FirstSeen(s)), Cardinality(NumberStarts(raw)))
    IN PyList([i \in 1..n |->
            PyDict(<<[key |-> K_month, val |-> PyStr(MonthToken(s, Nth(FirstSeen(s), i)))],
                     [key |-> K_value,
                      val |-> IF rounded THEN Nearest4(NumberAt(raw, Nth(NumberStarts(raw), i)))
                              ELSE NumberAt(raw, Nth(NumberStarts(raw), i))]>>)])

C6_PairsTheNumber ==
    (pc = "parsed" /\ FirstArray(html) # <<>>) => series = C6_Pairing(html, FALSE)

C6_PairsRounded ==
    (pc = "parsed" /\ FirstArray(html) # <<>>) => series = C6_Pairing(html, TRUE)

\* a repeated month, a number beyond the months, and a number that is rounded
C6_Witness ==
    /\ pc = "parsed"
    /\ FirstArray(html) # <<>>
    /\ Len(FindMonths(html, 0)) > Cardinality(FirstSeen(html))
    /\ Cardinality(NumberStarts(FirstArray(html))) > Cardinality(FirstSeen(html))
    /\ Len(series.items) = 2
    /\ \E i \in 1..2 : NumberAt(FirstArray(html), Nth(NumberStarts(FirstArray(html)), i)).e > NDIGITS

(***************************************************************************)
(* C7: over a file an earlier run wrote, a failed run (its fetch raises,   *)
(* or all three extractions find nothing) leaves the stored h5_index, mcm  *)
(* and series as they were, however often it is repeated.                  *)
(***************************************************************************)
C7_FallbackLossless ==
    (pc = "done" /\ wrote_before /\ (exc \in FetchErrors \/ AllMiss))
        => Fields(file) = Fields(file0)

\* the file was rewritten (its date moved) and the three fields stayed
C7_Witness ==
    /\ pc = "done"
    /\ wrote_before
    /\ AllMiss
    /\ Wrote
    /\ file # file0
    /\ FieldOf(file, K_h5_index) # None
    /\ FieldOf(file, K_mcm) # None
    /\ HasSeries(file)
    /\ Fields(file) = Fields(file0)

(***************************************************************************)
(* C8: every run ends, having printed one message: OK exactly when it      *)
(* wrote the file, ERRO exactly when it did not; the file is written at    *)
(* most once, and only after fetch, extraction and assembly.               *)
(***************************************************************************)
\* where a run may be: done, or at a place from which a step of main leads
\* on (the guard of each step is its place alone); never out of main with
\* an exception ("crashed")
Places ==
    {"start", "raise", "fetch", "parse", "carry", "assemble", "write", "print", "except", "done"}

C8_OneStatus ==
    /\ pc \in Places
    /\ Count(steps, "write") <= 1
    /\ Wrote => SubSeq(steps, 1, 6) = <<"load", "fetch", "extract", "carry", "assemble", "write">>
    /\ pc # "done" => out = <<>>
    /\ pc = "done" =>
          /\ Len(out) = 1
          /\ out[1] = "OK" <=> Wrote
          /\ out[1] = "ERRO" <=> ~Wrote

\* a run that failed after a run that wrote
C8_Witness ==
    /\ pc = "done"
    /\ wrote_before
    /\ out = <<"ERRO">>
    /\ exc = "HTTPError"

(***************************************************************************)
(* C9: whatever the file holds when a run begins, a run whose fetch        *)
(* succeeds ends by writing a new Snapshot and printing OK.                *)
(***************************************************************************)
C9_PriorNeverFailsRun ==
    (pc = "done" /\ Fetched) => (Wrote /\ out = <<"OK">>)

(***************************************************************************)
(* C10: when the page holds the h5-index label, no digit in the 200        *)
(* characters before it and a number within the 400 after it, scalar       *)
(* extraction returns that number.                                         *)
(***************************************************************************)
C10_NumberNearLabel ==
    LET m      == SearchLabel(H5_LABEL, html)
        before == Slice(html, Max(m.start - BEFORE_LABEL, 0), m.start)
        after  == Slice(html, m.end, Min(m.end + AFTER_LABEL, Len(html)))
    IN (/\ pc = "parsed"
        /\ m.start >= 0
        /\ \A i \in 1..Len(before) : ~IsDigit(before[i])
        /\ SearchNumber(after) # <<>>)
       => h5_index = ToNumber(SearchNumber(after))
====
